---- MODULE Spec2Model ----
(***************************************************************************)
(* Model of the streamed learning-plan assembler of the Home component     *)
(* (src/frontend/app/page.tsx): handleStartLearning reads a chunked text   *)
(* stream, splits each chunk on blank lines, appends the content of every  *)
(* data: frame to accumulatedJson, stops on [DONE] or end-of-stream and    *)
(* parses the buffer into the learning plan.                               *)
(*                                                                         *)
(* Texts are TLA+ strings; Len, SubSeq and \o act on them character by     *)
(* character.                                                              *)
(***************************************************************************)
EXTENDS Naturals, Sequences, FiniteSets, TLC

(***************************************************************************)
(* Evaluation order.  The({F(x) : x \in {e}}) is F(e) with e evaluated     *)
(* once, before F uses it: the result of a scan or of a parse is bound     *)
(* this way before it is read several times.                               *)
(***************************************************************************)

The(S) == CHOOSE x \in S : TRUE

\* The least and the greatest element of a non-empty set of numbers.
Min(S) == The({(CHOOSE x \in T : \A y \in T : x <= y) : T \in {S}})
Max(S) == The({(CHOOSE x \in T : \A y \in T : y <= x) : T \in {S}})

\* The least element of a set of indices, and `none` for the empty set.
First(S, none) == The({(IF T = {} THEN none ELSE Min(T)) : T \in {S}})

(***************************************************************************)
(* JavaScript string primitives used by the handler.                       *)
(***************************************************************************)

\* s.charAt(i - 1)
Ch(s, i) == SubSeq(s, i, i)

\* s.startsWith(p)
StartsWith(s, p) == Len(s) >= Len(p) /\ SubSeq(s, 1, Len(p)) = p

\* s.startsWith(p, i - 1)
StartsWithAt(s, p, i) == i + Len(p) - 1 <= Len(s) /\ SubSeq(s, i, i + Len(p) - 1) = p

\* s.substring(n)
Substring(s, n) == SubSeq(s, n + 1, Len(s))

\* White space as String.prototype.trim and JSON see it.
IsWs(c) == c \in {" ", "\n", "\t", "\r"}

\* s.trim()
Trim(s) ==
  The({(IF inked = {} THEN "" ELSE SubSeq(s, Min(inked), Max(inked)))
       : inked \in {{i \in 1..Len(s) : ~IsWs(Ch(s, i))}}})

\* s.indexOf(sep, from - 1) + 1, and 0 when sep does not occur.
IndexOf(s, sep, from) ==
  First({j \in from..(Len(s) + 1 - Len(sep)) : SubSeq(s, j, j + Len(sep) - 1) = sep}, 0)

\* The pieces of s from index `from` on.
RECURSIVE SplitFrom(_, _, _)
SplitFrom(s, sep, from) ==
  The({(IF i = 0 THEN <<SubSeq(s, from, Len(s))>>
        ELSE <<SubSeq(s, from, i - 1)>> \o SplitFrom(s, sep, i + Len(sep)))
       : i \in {IndexOf(s, sep, from)}})

\* s.split(sep) for a non-empty separator: the pieces between the leftmost
\* non-overlapping occurrences of sep; a text without sep is one piece, and
\* a text ending in sep ends with an empty piece.
Split(s, sep) == SplitFrom(s, sep, 1)

\* pieces.join(sep)
RECURSIVE Join(_, _)
Join(pieces, sep) ==
  IF Len(pieces) = 0 THEN ""
  ELSE IF Len(pieces) = 1 THEN pieces[1]
  ELSE pieces[1] \o sep \o Join(Tail(pieces), sep)

(***************************************************************************)
(* JSON values, JSON.parse and JSON.stringify.  A value is a record        *)
(* [t, s, kv]: t names the type, s is the text of a string, number or      *)
(* boolean, and kv lists the members of an object (key k, value v, in      *)
(* source order) or the elements of an array (k = "").  The parser covers  *)
(* null, true, false, integers, strings with the escapes \" \\ \/ \n \t,   *)
(* arrays and objects, with white space between tokens.                    *)
(***************************************************************************)

JNull == [t |-> "null", s |-> "", kv |-> <<>>]
JBool(b) == [t |-> "bool", s |-> b, kv |-> <<>>]
JNum(digits) == [t |-> "num", s |-> digits, kv |-> <<>>]
JStr(text) == [t |-> "str", s |-> text, kv |-> <<>>]
JArr(items) == [t |-> "arr", s |-> "", kv |-> [i \in 1..Len(items) |-> [k |-> "", v |-> items[i]]]]
JObj(members) == [t |-> "obj", s |-> "", kv |-> members]

Digits == {"0", "1", "2", "3", "4", "5", "6", "7", "8", "9"}

\* A parse step's result: ok, the value, and the index after it.
PFail == [ok |-> FALSE, v |-> JNull, i |-> 0]
POk(v, i) == [ok |-> TRUE, v |-> v, i |-> i]

\* The index of the first character from i on that is not white space.
SkipWs(s, i) == First({j \in i..Len(s) : ~IsWs(Ch(s, j))}, Len(s) + 1)

\* What the escape sequence \e stands for; "" when JSON has no such escape.
Unescape(e) ==
  IF e \in {"\"", "\\", "/"} THEN e
  ELSE IF e = "n" THEN "\n"
  ELSE IF e = "t" THEN "\t"
  ELSE ""

\* In a string literal whose body starts at index lo: the character at
\* index k is escaped when an odd number of backslashes directly precede it.
IsEscaped(s, lo, k) ==
  /\ k > lo
  /\ Ch(s, k - 1) = "\\"
  /\ (k - 1 - Max({j \in (lo - 1)..(k - 1) : j = lo - 1 \/ Ch(s, j) # "\\"})) % 2 = 1

\* The index of the quote that closes the literal, 0 without one.
ClosingQuote(s, lo) ==
  First({j \in lo..Len(s) : Ch(s, j) = "\"" /\ ~IsEscaped(s, lo, j)}, 0)

\* A character no string literal may hold at index k: a raw control
\* character, or an escaped character JSON has no escape for.
BadAt(s, lo, k) ==
  IF IsEscaped(s, lo, k) THEN Unescape(Ch(s, k)) = ""
  ELSE Ch(s, k) \in {"\n", "\t", "\r"}

\* The text that the characters at indices a..b of the literal stand for.
RECURSIVE Unescaped(_, _, _, _)
Unescaped(s, lo, a, b) ==
  IF a > b THEN ""
  ELSE IF \A k \in a..b : Ch(s, k) # "\\" /\ ~IsEscaped(s, lo, k) THEN SubSeq(s, a, b)
  ELSE IF a = b
    THEN (IF IsEscaped(s, lo, a) THEN Unescape(Ch(s, a)) ELSE "")
  ELSE Unescaped(s, lo, a, (a + b) \div 2) \o Unescaped(s, lo, (a + b) \div 2 + 1, b)

\* The string literal whose body starts at index lo (after the opening
\* quote).
ScanString(s, lo) ==
  The({(IF q = 0 \/ \E k \in lo..(q - 1) : BadAt(s, lo, k) THEN PFail
        ELSE POk(JStr(Unescaped(s, lo, lo, q - 1)), q + 1))
       : q \in {ClosingQuote(s, lo)}})

\* The index of the first character from i on that is not a digit.
ScanDigits(s, i) == First({j \in i..Len(s) : Ch(s, j) \notin Digits}, Len(s) + 1)

\* An integer: an optional minus sign, then 0 or a digit string without a
\* leading zero.
ParseNumber(s, i) ==
  The({The({(IF e = j THEN PFail
             ELSE IF Ch(s, j) = "0" /\ e > j + 1 THEN POk(JNum(SubSeq(s, i, j)), j + 1)
             ELSE POk(JNum(SubSeq(s, i, e - 1)), e))
            : e \in {ScanDigits(s, j)}})
       : j \in {IF i <= Len(s) /\ Ch(s, i) = "-" THEN i + 1 ELSE i}})

RECURSIVE ParseValue(_, _)
RECURSIVE ParseElements(_, _, _)
RECURSIVE ParseMembers(_, _, _)

\* After an element or a member that ended before index j: the next one
\* after a comma, the end at the closing bracket.
AfterItem(s, j, items, close, isObj) ==
  IF j > Len(s) THEN PFail
  ELSE IF Ch(s, j) = "," /\ isObj THEN ParseMembers(s, j + 1, items)
  ELSE IF Ch(s, j) = "," THEN ParseElements(s, j + 1, items)
  ELSE IF Ch(s, j) = close
    THEN POk([t |-> IF isObj THEN "obj" ELSE "arr", s |-> "", kv |-> items], j + 1)
  ELSE PFail

\* The value at index i as the item named key of an object or an array, and
\* what follows it.
ParseItem(s, i, key, acc, close, isObj) ==
  The({(IF ~r.ok THEN PFail
        ELSE AfterItem(s, SkipWs(s, r.i), Append(acc, [k |-> key, v |-> r.v]), close, isObj))
       : r \in {ParseValue(s, SkipWs(s, i))}})

\* The elements of an array from index i (after "[" or ","), appended to acc.
ParseElements(s, i, acc) == ParseItem(s, i, "", acc, "]", FALSE)

\* The member whose key is the string literal `key`: a colon, then its value.
ParseMember(s, key, acc) ==
  The({(IF c > Len(s) \/ Ch(s, c) # ":" THEN PFail
        ELSE ParseItem(s, c + 1, key.v.s, acc, "}", TRUE))
       : c \in {SkipWs(s, key.i)}})

\* The members of an object from index i (after "{" or ","), appended to acc.
ParseMembers(s, i, acc) ==
  The({(IF j > Len(s) \/ Ch(s, j) # "\"" THEN PFail
        ELSE The({(IF ~key.ok THEN PFail ELSE ParseMember(s, key, acc))
                  : key \in {ScanString(s, j + 1)}}))
       : j \in {SkipWs(s, i)}})

\* An empty object or array when `close` follows the opening bracket.
Bracketed(s, i, close, isObj) ==
  The({(IF j <= Len(s) /\ Ch(s, j) = close
        THEN POk([t |-> IF isObj THEN "obj" ELSE "arr", s |-> "", kv |-> <<>>], j + 1)
        ELSE IF isObj THEN ParseMembers(s, j, <<>>)
        ELSE ParseElements(s, j, <<>>))
       : j \in {SkipWs(s, i + 1)}})

ParseValue(s, i) ==
  IF i > Len(s) THEN PFail
  ELSE IF Ch(s, i) = "\"" THEN ScanString(s, i + 1)
  ELSE IF Ch(s, i) = "{" THEN Bracketed(s, i, "}", TRUE)
  ELSE IF Ch(s, i) = "[" THEN Bracketed(s, i, "]", FALSE)
  ELSE IF StartsWithAt(s, "null", i) THEN POk(JNull, i + 4)
  ELSE IF StartsWithAt(s, "true", i) THEN POk(JBool("true"), i + 4)
  ELSE IF StartsWithAt(s, "false", i) THEN POk(JBool("false"), i + 5)
  ELSE IF Ch(s, i) = "-" \/ Ch(s, i) \in Digits THEN ParseNumber(s, i)
  ELSE PFail

\* JSON.parse(text): ok is FALSE where JSON.parse throws a SyntaxError.
JsonParse(text) ==
  The({The({(IF r.ok /\ SkipWs(s, r.i) > Len(s) THEN [ok |-> TRUE, v |-> r.v]
             ELSE [ok |-> FALSE, v |-> JNull])
            : r \in {ParseValue(s, SkipWs(s, 1))}})
       : s \in {text}})

\* The body of a string literal: quote, backslash and the control characters
\* escaped as JSON.stringify escapes them.
RECURSIVE Escape(_)
Escape(text) ==
  IF Len(text) = 0 THEN ""
  ELSE IF Len(text) = 1
    THEN IF text = "\"" THEN "\\\""
         ELSE IF text = "\\" THEN "\\\\"
         ELSE IF text = "\n" THEN "\\n"
         ELSE IF text = "\t" THEN "\\t"
         ELSE text
  ELSE LET h == Len(text) \div 2
       IN  Escape(SubSeq(text, 1, h)) \o Escape(SubSeq(text, h + 1, Len(text)))

\* JSON.stringify(v)
RECURSIVE Stringify(_)
RECURSIVE StringifyList(_, _)
StringifyList(kv, isObj) ==
  IF Len(kv) = 0 THEN ""
  ELSE (IF isObj THEN "\"" \o Escape(kv[1].k) \o "\":" ELSE "")
       \o Stringify(kv[1].v)
       \o (IF Len(kv) > 1 THEN "," ELSE "")
       \o StringifyList(Tail(kv), isObj)

Stringify(v) ==
  IF v.t = "str" THEN "\"" \o Escape(v.s) \o "\""
  ELSE IF v.t = "arr" THEN "[" \o StringifyList(v.kv, FALSE) \o "]"
  ELSE IF v.t = "obj" THEN "{" \o StringifyList(v.kv, TRUE) \o "}"
  ELSE IF v.t = "null" THEN "null"
  ELSE v.s

(***************************************************************************)
(* JavaScript values around the parsed frame.                              *)
(***************************************************************************)

\* The value undefined: what reading a missing property yields.
Undefined == [t |-> "undefined", s |-> "", kv |-> <<>>]

\* v[key] for a non-null v: the last member of an object named key;
\* undefined for a missing member and for a number, a string, a boolean or
\* an array (none has an own property called content).
Member(v, key) ==
  The({(IF v.t = "obj" /\ hits # {} THEN v.kv[Max(hits)].v ELSE Undefined)
       : hits \in {{i \in 1..Len(v.kv) : v.kv[i].k = key}}})

\* String(v): the text that `accumulatedJson += v` appends.
RECURSIVE ToJsString(_)
RECURSIVE JoinElements(_)
JoinElements(kv) ==
  IF Len(kv) = 0 THEN ""
  ELSE (IF kv[1].v.t \in {"null", "undefined"} THEN "" ELSE ToJsString(kv[1].v))
       \o (IF Len(kv) > 1 THEN "," ELSE "")
       \o JoinElements(Tail(kv))

ToJsString(v) ==
  IF v.t = "undefined" THEN "undefined"
  ELSE IF v.t = "null" THEN "null"
  ELSE IF v.t = "obj" THEN "[object Object]"
  ELSE IF v.t = "arr" THEN JoinElements(v.kv)
  ELSE IF v.t = "num" /\ v.s = "-0" THEN "0"
  ELSE v.s

(***************************************************************************)
(* The read loop of handleStartLearning.                                   *)
(***************************************************************************)

\* The separator of value.split (line 52).
Delimiter == "\n\n"

\* The prefix of an event line (line 54).
DataPrefix == "data:"

\* The termination sentinel (line 56).
DoneToken == "[DONE]"

\* The message of the inner catch (line 78): the plan could not be parsed,
\* the received data is malformed.
ParseErrorMessage == "could not parse the learning plan: malformed data"

\* The fallback message of the outer catch for a thrown non-Error (line 82).
UnknownErrorMessage == "unknown error while generating the learning plan"

\* A faulty variant of Parsed: a payload that is not JSON is appended as it
\* is instead of being skipped.
ParsedOrRaw(dataContent) ==
  The({(IF ~parsed.ok THEN [kind |-> "append", text |-> dataContent]
        ELSE IF parsed.v.t = "null" THEN [kind |-> "skip", text |-> ""]
        ELSE [kind |-> "append", text |-> ToJsString(Member(parsed.v, "content"))])
       : parsed \in {JsonParse(dataContent)}})

\* The try block of lines 59-64 for a payload: append the text of
\* parsed.content, or skip the line when JSON.parse throws a SyntaxError or
\* reading content of null throws a TypeError (both caught at line 62).
Parsed(dataContent) ==
  The({(IF ~parsed.ok THEN [kind |-> "skip", text |-> ""]
        ELSE IF parsed.v.t = "null" THEN [kind |-> "skip", text |-> ""]
        ELSE [kind |-> "append", text |-> ToJsString(Member(parsed.v, "content"))])
       : parsed \in {JsonParse(dataContent)}})

\* One iteration of the for loop over the lines of a chunk (lines 54-65):
\* skip the line, leave the read loop, or append text to accumulatedJson.
Extract(line) ==
  IF ~StartsWith(line, DataPrefix) THEN [kind |-> "skip", text |-> ""]
  ELSE The({(IF dataContent = DoneToken THEN [kind |-> "done", text |-> ""]
             ELSE Parsed(dataContent))
            : dataContent \in {Trim(Substring(line, 5))}})

\* A faulty variant of ProcessLines: a fragment is put in front of the
\* buffer (accumulatedJson = parsed.content + accumulatedJson).
RECURSIVE ProcessLinesPrepend(_, _)
ProcessLinesPrepend(lines, acc) ==
  IF Len(lines) = 0 THEN [acc |-> acc, done |-> FALSE]
  ELSE The({(IF x.kind = "done" THEN [acc |-> acc, done |-> TRUE]
             ELSE IF x.kind = "append" THEN ProcessLinesPrepend(Tail(lines), x.text \o acc)
             ELSE ProcessLinesPrepend(Tail(lines), acc))
            : x \in {Extract(Head(lines))}})

\* A faulty variant of ProcessLines: the sentinel leaves the for loop only
\* (break instead of break readLoop), and the while loop reads on.
RECURSIVE ProcessLinesInnerBreak(_, _)
ProcessLinesInnerBreak(lines, acc) ==
  IF Len(lines) = 0 THEN [acc |-> acc, done |-> FALSE]
  ELSE The({(IF x.kind = "done" THEN [acc |-> acc, done |-> FALSE]
             ELSE IF x.kind = "append" THEN ProcessLinesInnerBreak(Tail(lines), acc \o x.text)
             ELSE ProcessLinesInnerBreak(Tail(lines), acc))
            : x \in {Extract(Head(lines))}})

\* The for loop over the lines of one chunk (lines 53-66): the buffer after
\* it, and whether break readLoop was taken.
RECURSIVE ProcessLines(_, _)
ProcessLines(lines, acc) ==
  IF Len(lines) = 0 THEN [acc |-> acc, done |-> FALSE]
  ELSE The({(IF x.kind = "done" THEN [acc |-> acc, done |-> TRUE]
             ELSE IF x.kind = "append" THEN ProcessLines(Tail(lines), acc \o x.text)
             ELSE ProcessLines(Tail(lines), acc))
            : x \in {Extract(Head(lines))}})

\* A faulty variant of ProcessChunk: the buffer is declared inside the loop
\* and starts empty with every chunk.
ProcessChunkFresh(value, acc) ==
  The({ProcessLines(lines, "") : lines \in {Split(value, Delimiter)}})

\* The body of the read loop for one chunk (lines 52-66).
ProcessChunk(value, acc) ==
  The({ProcessLines(lines, acc) : lines \in {Split(value, Delimiter)}})

\* A faulty variant of FinalOutcome: without the else branch of line 73, an
\* empty buffer sets neither a plan nor an error.
FinalOutcomeSilentEmpty(acc) ==
  The({(IF acc = "" THEN [plan |-> <<>>, error |-> <<>>]
        ELSE IF finalPlan.ok THEN [plan |-> <<finalPlan.v>>, error |-> <<>>]
        ELSE [plan |-> <<>>, error |-> <<ParseErrorMessage>>])
       : finalPlan \in {JsonParse(acc)}})

\* The final parse (lines 69-79): what the attempt hands to setLearningPlan
\* and to setError.  A non-empty string is truthy.
FinalOutcome(acc) ==
  The({(IF acc # "" /\ finalPlan.ok
        THEN [plan |-> <<finalPlan.v>>, error |-> <<>>]
        ELSE [plan |-> <<>>, error |-> <<ParseErrorMessage>>])
       : finalPlan \in {JsonParse(acc)}})

\* The outer catch (lines 81-83): the message of a thrown Error, the
\* fallback for anything else.
TransportOutcome(thrown) ==
  [plan |-> <<>>,
   error |-> <<IF thrown.isError THEN thrown.message ELSE UnknownErrorMessage>>]

(***************************************************************************)
(* The learning plan and the wire framing of the stream endpoint.          *)
(***************************************************************************)

\* interface Task
Task(description, subtasks) ==
  JObj(<<[k |-> "description", v |-> JStr(description)],
         [k |-> "subtasks", v |-> JArr([i \in 1..Len(subtasks) |-> JStr(subtasks[i])])]>>)

\* interface LearningPlan
Plan(title, tasks) ==
  JObj(<<[k |-> "title", v |-> JStr(title)], [k |-> "tasks", v |-> JArr(tasks)]>>)

\* Whether a JSON value has the shape of interface Task.
IsTask(v) ==
  /\ v.t = "obj"
  /\ Member(v, "description").t = "str"
  /\ Member(v, "subtasks").t = "arr"
  /\ \A i \in 1..Len(Member(v, "subtasks").kv) : Member(v, "subtasks").kv[i].v.t = "str"

\* Whether a JSON value has the shape of interface LearningPlan.
IsLearningPlan(v) ==
  /\ v.t = "obj"
  /\ Member(v, "title").t = "str"
  /\ Member(v, "tasks").t = "arr"
  /\ \A i \in 1..Len(Member(v, "tasks").kv) : IsTask(Member(v, "tasks").kv[i].v)

\* The documents the server streams.
DocX == Plan("X", <<>>)
DocT == Plan("T", <<Task("d", <<"s">>)>>)
Docs == {DocX, DocT}

\* One event line carrying a content fragment.
FrameOf(fragment) ==
  "data: " \o Stringify(JObj(<<[k |-> "content", v |-> JStr(fragment)]>>))

\* The event line of the sentinel.
DoneFrame == "data: [DONE]"

\* A response body: every frame followed by the blank-line delimiter.
RECURSIVE Wire(_)
Wire(frames) ==
  IF Len(frames) = 0 THEN "" ELSE frames[1] \o "\n\n" \o Wire(Tail(frames))

\* The frames of a text sent as the fragments before and after index cut
\* (one fragment when cut is 0), then the sentinel.
Encode(text, cut) ==
  IF cut = 0 THEN <<FrameOf(text), DoneFrame>>
  ELSE <<FrameOf(SubSeq(text, 1, cut)), FrameOf(SubSeq(text, cut + 1, Len(text))), DoneFrame>>

(***************************************************************************)
(* The transport: the response bodies the server may send and the places   *)
(* where the byte stream may be cut into chunks.                           *)
(***************************************************************************)

\* The length, in frames, up to which every sequence of frames of the
\* alphabet is a response.
MaxFrames == 2

\* The serialized document of the two-frame example, and its two fragments.
TextX == Stringify(DocX)
Frag1 == SubSeq(TextX, 1, Len(TextX) \div 2)
Frag2 == SubSeq(TextX, Len(TextX) \div 2 + 1, Len(TextX))

\* An event line that is not a data: line (a comment line of the event
\* stream), and a data: line whose payload is cut-off JSON.
NotDataFrame == ": ping"
BadJsonFrame == "data: {\"content\":"

\* Frames that are skipped by the Fragment Extractor: not data:-prefixed, or
\* data:-prefixed with a payload that is neither the sentinel nor JSON.
Malformed(line) ==
  \/ ~StartsWith(line, DataPrefix)
  \/ /\ Trim(Substring(line, 5)) # DoneToken
     /\ ~JsonParse(Trim(Substring(line, 5))).ok

\* The frames responses are built from.
FrameAlphabet == {FrameOf(Frag1), FrameOf(Frag2), DoneFrame, NotDataFrame, BadJsonFrame}

\* Longer responses: the encodings of the two documents, fragments after the
\* sentinel, malformed frames between fragments; and responses whose buffer
\* is JSON but no learning plan, or whose frames carry no content.
OtherResponses ==
  { Encode(TextX, Len(TextX) \div 2),
    Encode(Stringify(DocT), 0),
    <<FrameOf(Frag1), DoneFrame, FrameOf(Frag2)>>,
    <<FrameOf(Frag1), NotDataFrame, BadJsonFrame, FrameOf(Frag2)>>,
    <<FrameOf("null"), DoneFrame>>,
    <<FrameOf("5")>>,
    <<FrameOf("{\"title\":\"X\"}"), DoneFrame>>,
    <<"data: {}", DoneFrame>>,
    <<"data: null", FrameOf(TextX)>> }

FrameSeqs ==
  UNION {[1..n -> FrameAlphabet] : n \in 0..MaxFrames} \cup OtherResponses

\* The offsets at which a read may end inside a frame that starts after
\* offset `start`: inside the frame, before the delimiter and between its
\* two line breaks; and after the delimiter.
CutsOf(frame, start) ==
  {start + Len(frame) \div 2, start + Len(frame),
   start + Len(frame) + 1, start + Len(frame) + 2}

RECURSIVE CutPoints(_, _)
CutPoints(frames, start) ==
  IF Len(frames) = 0 THEN {}
  ELSE CutsOf(frames[1], start)
       \cup CutPoints(Tail(frames), start + Len(frames[1]) + 2)

\* A response: its text and the offsets where chunks may end.
Responses == {[text |-> Wire(fs), cuts |-> CutPoints(fs, 0)] : fs \in FrameSeqs}

\* Rejected responses (line 39): a non-success status, or no body.
Rejections == {[ok |-> FALSE, hasBody |-> TRUE, status |-> "500"],
               [ok |-> TRUE, hasBody |-> FALSE, status |-> "200"]}

\* What fetch or reader.read() may reject with: an Error, or another value.
Failures == {[isError |-> TRUE, message |-> "network error"],
             [isError |-> FALSE, message |-> ""]}

\* The error message of line 40 (request failed, status code).
RequestFailedMessage(status) == "request failed, status: " \o status

(***************************************************************************)
(* State.                                                                  *)
(***************************************************************************)

VARIABLES
  currentView,    \* "welcome" or "dashboard"
  learningTopic,  \* the topic shown
  learningPlan,   \* the plan shown: a JSON value, JNull for null
  isLoading,      \* the loading flag
  error,          \* the error shown: NoError for null
  att,            \* the calls of handleStartLearning, by number
  currentPlan,        \* LearningDashboard: the plan shown, JNull for null
  completedSubtasks,  \* LearningDashboard: the ids of the ticked subtasks
  chatMessages,       \* LearningDashboard: the chat, oldest message first
  adj,                \* the calls of triggerPlanAdjustment, by number
  ask                 \* the call of handleAskCoach

\* The state of LearningDashboard, and all of the state.
dashboardVars == <<currentPlan, completedSubtasks, chatMessages, adj, ask>>
vars == <<currentView, learningTopic, learningPlan, isLoading, error, att,
          currentPlan, completedSubtasks, chatMessages, adj, ask>>

\* The calls of handleStartLearning a run may make.
AttemptIds == {1}

Topics == {"go"}

NoError == [isNull |-> TRUE, message |-> ""]
ErrorOf(message) == [isNull |-> FALSE, message |-> message]

\* A call that has not started.  pc: where the call is suspended ("fetch":
\* awaiting fetch, "read": awaiting reader.read()).  accumulatedJson: the
\* local of line 44.  wire, cuts, off: the response, where it may be cut,
\* and how much of it has been read.  The rest records what the call did:
\* hasRead (reader.read() was called), reader (line 43 reached), parsed (the
\* JSON.parse of line 71 reached), plans and errors (the arguments of its
\* setLearningPlan and setError calls after line 30), loadingOff (calls of
\* setIsLoading(false)), end (how it left the read loop), abandonedAt (where
\* it was suspended when handleBackToWelcome ran), lateRead and lateWrite
\* (it read, or wrote Home's state, after that), expectBuf and sawDone (the
\* fragments before the first sentinel frame), refAcc and refDone (the read
\* loop run on the stream without its malformed frames), aligned (every
\* chunk so far was made of whole frames, each with its delimiter), chunks
\* (how many, as long as that is so).
IdleAttempt ==
  [pc |-> "idle", accumulatedJson |-> "", wire |-> "", cuts |-> {}, off |-> 0,
   hasRead |-> FALSE, reader |-> FALSE, parsed |-> FALSE, plans |-> <<>>, errors |-> <<>>,
   loadingOff |-> 0, end |-> "", abandonedAt |-> "", lateRead |-> FALSE,
   lateWrite |-> FALSE, expectBuf |-> "", sawDone |-> FALSE, refAcc |-> "",
   refDone |-> FALSE, aligned |-> TRUE, chunks |-> 0]

\* The calls of triggerPlanAdjustment a run may make.
AdjustIds == {1}

\* A call of triggerPlanAdjustment that has not started.  pc: where the call
\* is suspended ("fetch": awaiting fetch, "json": awaiting response.json()).
\* The rest records what the call did: branch (how it ended), requests (its
\* fetch calls), sets (its setCurrentPlan calls), appended (the contents of
\* the messages it added to the chat), via (who called it), and what came
\* back: ok (response.ok), success and hasPlan (data.success, data.plan).
IdleAdjust ==
  [pc |-> "idle", via |-> "", branch |-> "", requests |-> 0, sets |-> 0,
   appended |-> <<>>, ok |-> FALSE, success |-> FALSE, hasPlan |-> FALSE]

\* LearningDashboard is not rendered: Home shows WelcomeScreen.
NotMounted ==
  /\ currentPlan = JNull
  /\ completedSubtasks = {}
  /\ chatMessages = <<>>
  /\ adj = [c \in AdjustIds |-> IdleAdjust]
  /\ ask = "idle"

Init ==
  /\ NotMounted
  /\ currentView = "welcome"
  /\ learningTopic = ""
  /\ learningPlan = JNull
  /\ isLoading = FALSE
  /\ error = NoError
  /\ att = [a \in AttemptIds |-> IdleAttempt]

(***************************************************************************)
(* Reference readings of a chunk, used to state what the loop must do.     *)
(***************************************************************************)

\* A frame whose trimmed payload is the sentinel.
IsDoneFrame(line) ==
  StartsWith(line, DataPrefix) /\ Trim(Substring(line, 5)) = DoneToken

\* The index of the first sentinel frame of a list of frames, 0 without one.
FirstDone(lines) == First({i \in 1..Len(lines) : IsDoneFrame(lines[i])}, 0)

\* The frames that precede the first sentinel frame.
BeforeDone(lines) ==
  IF FirstDone(lines) = 0 THEN lines ELSE SubSeq(lines, 1, FirstDone(lines) - 1)

\* The fragments of a list of frames, concatenated in order.
RECURSIVE ConcatText(_)
ConcatText(lines) ==
  IF Len(lines) = 0 THEN ""
  ELSE (IF IsDoneFrame(lines[1]) THEN "" ELSE Extract(lines[1]).text)
       \o ConcatText(Tail(lines))

WellFormed(line) == ~Malformed(line)

\* A chunk that ends with the delimiter of its last frame.
WholeFrames(value) ==
  Len(value) >= Len(Delimiter)
  /\ SubSeq(value, Len(value) - Len(Delimiter) + 1, Len(value)) = Delimiter

\* A chunk without its malformed frames.
StripMalformed(value) ==
  The({Join(lines, Delimiter) : lines \in {SelectSeq(Split(value, Delimiter), WellFormed)}})

\* The record of a call after a chunk: what the frames of the chunk ask of
\* the buffer (expectBuf, sawDone), and the loop's reading of the chunk
\* without its malformed frames (refAcc, refDone), and whether the chunks
\* still end where frames end (aligned, chunks).
Observe(rec, value) ==
  The({[rec EXCEPT
          !.expectBuf = IF rec.sawDone THEN @ ELSE @ \o ConcatText(BeforeDone(lines)),
          !.sawDone = @ \/ FirstDone(lines) # 0,
          !.refAcc = IF rec.refDone THEN @ ELSE ref.acc,
          !.refDone = @ \/ ref.done,
          !.aligned = @ /\ WholeFrames(value),
          !.chunks = IF rec.aligned /\ WholeFrames(value) THEN @ + 1 ELSE 0]
       : lines \in {Split(value, Delimiter)},
         ref \in {ProcessChunk(StripMalformed(value), rec.refAcc)}})

(***************************************************************************)
(* The handlers of Home.                                                   *)
(***************************************************************************)

\* The end of a call: the setLearningPlan or setError call of the outcome
\* `out`, then the finally block (line 85).
Deliver(a, rec, out) ==
  /\ learningPlan' = IF Len(out.plan) > 0 THEN out.plan[1] ELSE learningPlan
  /\ error' = IF Len(out.error) > 0 THEN ErrorOf(out.error[1]) ELSE error
  /\ isLoading' = FALSE
  /\ att' = [att EXCEPT ![a] =
               [rec EXCEPT !.pc = "done",
                           !.plans = @ \o out.plan,
                           !.errors = @ \o out.error,
                           !.loadingOff = @ + 1,
                           !.lateWrite = (rec.abandonedAt # "")]]
  /\ UNCHANGED <<currentView, learningTopic>>
  /\ UNCHANGED dashboardVars

\* handleStartLearning up to its first await (lines 25-33).  WelcomeScreen,
\* which holds the callback, is rendered while currentView is "welcome".
StartLearning(a, topic) ==
  /\ currentView = "welcome"
  /\ att[a].pc = "idle"
  /\ \A b \in DOMAIN att : b < a => att[b].pc # "idle"
  /\ learningTopic' = topic
  /\ currentView' = "dashboard"
  /\ isLoading' = TRUE
  /\ error' = NoError
  /\ learningPlan' = JNull
  /\ att' = [att EXCEPT ![a].pc = "fetch"]
  /\ UNCHANGED dashboardVars

\* fetch rejects: the outer catch and the finally block (lines 81-86).
FetchFail(a, thrown) ==
  /\ att[a].pc = "fetch"
  /\ Deliver(a, [att[a] EXCEPT !.end = "fetchError"], TransportOutcome(thrown))

\* A faulty variant of ResponseRejected: the reader is obtained before the
\* response is checked.
ResponseRejectedAfterReader(a, response) ==
  /\ att[a].pc = "fetch"
  /\ ~response.ok \/ ~response.hasBody
  /\ Deliver(a, [att[a] EXCEPT !.end = "rejected", !.reader = response.hasBody],
             TransportOutcome([isError |-> TRUE,
                               message |-> RequestFailedMessage(response.status)]))

\* fetch resolves with a response that line 39 rejects.
ResponseRejected(a, response) ==
  /\ att[a].pc = "fetch"
  /\ ~response.ok \/ ~response.hasBody
  /\ Deliver(a, [att[a] EXCEPT !.end = "rejected"],
             TransportOutcome([isError |-> TRUE,
                               message |-> RequestFailedMessage(response.status)]))

\* fetch resolves with an accepted response: the reader, the empty buffer
\* and the first reader.read() (lines 43-47).
ResponseAccepted(a, response) ==
  /\ att[a].pc = "fetch"
  /\ att' = [att EXCEPT ![a] =
               [@ EXCEPT !.pc = "read", !.accumulatedJson = "",
                         !.wire = response.text, !.cuts = response.cuts,
                         !.reader = TRUE, !.hasRead = TRUE,
                         !.lateRead = (att[a].abandonedAt # "")]]
  /\ UNCHANGED <<currentView, learningTopic, learningPlan, isLoading, error>>
  /\ UNCHANGED dashboardVars

\* A faulty variant of ReadChunk: after every chunk the buffer is tried as
\* the plan and shown when it parses.
ReadChunkEager(a) ==
  /\ att[a].pc = "read"
  /\ \E to \in {c \in att[a].cuts \cup {Len(att[a].wire)} : att[a].off < c} :
     \E value \in {SubSeq(att[a].wire, att[a].off + 1, to)} :
     \E r \in {ProcessChunk(value, att[a].accumulatedJson)} :
     \E seen \in {Observe([att[a] EXCEPT !.off = to, !.accumulatedJson = r.acc], value)} :
     \E out \in {FinalOutcome(r.acc)} :
       IF r.done
       THEN Deliver(a, [seen EXCEPT !.end = "done", !.parsed = (r.acc # "")], out)
       ELSE /\ att' = [att EXCEPT ![a] = [seen EXCEPT !.lateRead = @ \/ seen.abandonedAt # ""]]
            /\ learningPlan' = IF Len(out.plan) > 0 THEN out.plan[1] ELSE learningPlan
            /\ UNCHANGED <<currentView, learningTopic, isLoading, error>>
            /\ UNCHANGED dashboardVars

\* reader.read() resolves with the text up to a later offset: the loop body
\* (lines 52-66), then either the next reader.read() or, after the
\* sentinel, the final parse and the finally block (lines 69-86).
ReadChunk(a) ==
  /\ att[a].pc = "read"
  /\ \E to \in {c \in att[a].cuts \cup {Len(att[a].wire)} : att[a].off < c} :
     \E value \in {SubSeq(att[a].wire, att[a].off + 1, to)} :
     \E r \in {ProcessChunk(value, att[a].accumulatedJson)} :
     \E seen \in {Observe([att[a] EXCEPT !.off = to, !.accumulatedJson = r.acc], value)} :
       IF r.done
       THEN \E out \in {FinalOutcome(r.acc)} :
              Deliver(a, [seen EXCEPT !.end = "done", !.parsed = (r.acc # "")], out)
       ELSE /\ att' = [att EXCEPT ![a] = [seen EXCEPT !.lateRead = @ \/ seen.abandonedAt # ""]]
            /\ UNCHANGED <<currentView, learningTopic, learningPlan, isLoading, error>>
            /\ UNCHANGED dashboardVars

\* A faulty variant of ReadEnd: a stream that closes without the sentinel is
\* reported as a failure of the transport.
ReadEndAsFailure(a) ==
  /\ att[a].pc = "read"
  /\ Deliver(a, [att[a] EXCEPT !.end = "eos"],
             TransportOutcome([isError |-> TRUE, message |-> "stream closed"]))

\* reader.read() resolves with done (lines 48-50): the final parse and the
\* finally block (lines 69-86).  The server may close the connection after
\* any chunk.
ReadEnd(a) ==
  /\ att[a].pc = "read"
  /\ \E out \in {FinalOutcome(att[a].accumulatedJson)} :
       Deliver(a, [att[a] EXCEPT !.end = "eos", !.parsed = (att[a].accumulatedJson # "")], out)

\* A faulty variant of ReadFail: the rejection is caught inside the loop,
\* which goes on to the next reader.read().
ReadFailThenRetry(a, thrown) ==
  /\ att[a].pc = "read"
  /\ att[a].end = ""
  /\ att' = [att EXCEPT ![a].end = "readError"]
  /\ UNCHANGED <<currentView, learningTopic, learningPlan, isLoading, error>>
  /\ UNCHANGED dashboardVars

\* A faulty variant of ReadFail: the rejection is caught inside the loop and
\* the buffer goes to the final parse.
ReadFailThenParse(a, thrown) ==
  /\ att[a].pc = "read"
  /\ \E out \in {FinalOutcome(att[a].accumulatedJson)} :
       Deliver(a, [att[a] EXCEPT !.end = "readError",
                                 !.parsed = (att[a].accumulatedJson # "")], out)

\* A faulty variant of ReadFail: a try/catch without the finally block, so
\* the rejection sets the error and the loading flag stays as it is.
ReadFailNoFinally(a, thrown) ==
  /\ att[a].pc = "read"
  /\ \E out \in {TransportOutcome(thrown)} :
       /\ error' = ErrorOf(out.error[1])
       /\ att' = [att EXCEPT ![a] =
                    [@ EXCEPT !.pc = "done", !.end = "readError",
                              !.errors = @ \o out.error,
                              !.lateWrite = (att[a].abandonedAt # "")]]
  /\ UNCHANGED <<currentView, learningTopic, learningPlan, isLoading>>
  /\ UNCHANGED dashboardVars

\* reader.read() rejects: the outer catch and the finally block (lines 81-86).
ReadFail(a, thrown) ==
  /\ att[a].pc = "read"
  /\ Deliver(a, [att[a] EXCEPT !.end = "readError"], TransportOutcome(thrown))

\* handleBackToWelcome (lines 121-127).  Home hands the callback to
\* LearningDashboard whenever currentView is "dashboard" (lines 137-143) and
\* puts no other condition on it; that LearningDashboard draws no button for
\* it while isLoading (welcome-screen.tsx, lines 297-303) is not part of
\* Home.  The handler holds no reference to a running call: the calls go on
\* as they were.
BackToWelcome ==
  /\ currentView = "dashboard"
  /\ currentView' = "welcome"
  /\ learningTopic' = ""
  /\ learningPlan' = JNull
  /\ isLoading' = FALSE
  /\ error' = NoError
  /\ att' = [a \in DOMAIN att |->
               IF att[a].pc \in {"fetch", "read"} /\ att[a].abandonedAt = ""
               THEN [att[a] EXCEPT !.abandonedAt = att[a].pc]
               ELSE att[a]]
  /\ UNCHANGED dashboardVars

Next ==
  \/ \E a \in AttemptIds, topic \in Topics : StartLearning(a, topic)
  \/ \E a \in AttemptIds, thrown \in Failures : FetchFail(a, thrown)
  \/ \E a \in AttemptIds, response \in Rejections : ResponseRejected(a, response)
  \/ \E a \in AttemptIds, response \in Responses : ResponseAccepted(a, response)
  \/ \E a \in AttemptIds : ReadChunk(a)
  \/ \E a \in AttemptIds : ReadEnd(a)
  \/ \E a \in AttemptIds, thrown \in Failures : ReadFail(a, thrown)
  \/ BackToWelcome

Spec == Init /\ [][Next]_vars

\* The promise of fetch (line 33) settles: it rejects, or resolves with a
\* rejected or an accepted response.
FetchSettles(a) ==
  \/ \E thrown \in Failures : FetchFail(a, thrown)
  \/ \E response \in Rejections : ResponseRejected(a, response)
  \/ \E response \in Responses : ResponseAccepted(a, response)

\* The promise of reader.read() (line 47) settles: with a chunk, with the
\* end of the stream, or with a rejection.
ReadSettles(a) ==
  \/ ReadEnd(a)
  \/ \E thrown \in Failures : ReadFail(a, thrown)
  \/ ReadChunk(a)

\* A fair transport: every pending promise of a call is settled in the end.
\* The stream is finite: a chunk ends at a later offset of the response.
FairSpec ==
  Spec /\ \A a \in AttemptIds : WF_vars(FetchSettles(a)) /\ WF_vars(ReadSettles(a))

(***************************************************************************)
(* Two calls of handleStartLearning: the second is started from the        *)
(* welcome screen after handleBackToWelcome, while the first may still be  *)
(* awaiting fetch or a read.  Both share the state of Home.                *)
(***************************************************************************)

OverlapIds == {1, 2}

\* The responses of the two calls, each delivered as one chunk: a document
\* in one frame, and the sentinel alone.
OverlapResponses ==
  {[text |-> Wire(fs), cuts |-> {}] : fs \in {<<FrameOf(TextX)>>, <<DoneFrame>>}}

InitOverlap ==
  /\ NotMounted
  /\ currentView = "welcome"
  /\ learningTopic = ""
  /\ learningPlan = JNull
  /\ isLoading = FALSE
  /\ error = NoError
  /\ att = [a \in OverlapIds |-> IdleAttempt]

NextOverlap ==
  \/ \E a \in OverlapIds, topic \in Topics : StartLearning(a, topic)
  \/ \E a \in OverlapIds, thrown \in Failures : FetchFail(a, thrown)
  \/ \E a \in OverlapIds, response \in Rejections : ResponseRejected(a, response)
  \/ \E a \in OverlapIds, response \in OverlapResponses : ResponseAccepted(a, response)
  \/ \E a \in OverlapIds : ReadChunk(a)
  \/ \E a \in OverlapIds : ReadEnd(a)
  \/ \E a \in OverlapIds, thrown \in Failures : ReadFail(a, thrown)
  \/ BackToWelcome

SpecOverlap == InitOverlap /\ [][NextOverlap]_vars

(***************************************************************************)
(* LearningDashboard (components/welcome-screen.tsx), from the moment Home  *)
(* renders it until Home goes back to the welcome screen.  Its props are    *)
(* Home's learningTopic, learningPlan, isLoading and error.                 *)
(***************************************************************************)

\* The contents of the messages of the component, in translation.
WelcomeMessage == "welcome to your learning journey"
NoPlanMessage == "cannot adjust without a valid plan"
NoInsightsMessage == "some feedback is needed to adjust the plan"
AdjustingNotice == "feedback received, adjusting the plan"
ServiceUnavailableMessage == "the plan adjustment service is unavailable"
PlanUpdatedMessage == "the plan has been updated from your feedback"
NoAdjustedPlanMessage == "could not get the adjusted plan"
AdjustFailedMessage == "plan adjustment failed, try again later"
ShareInsightsFirstMessage == "share some insights in the chat first"
CoachUnavailableMessage == "the coach service is unavailable"

\* A chat message.  Its id (role and Date.now()) is left out: no handler
\* reads it.
Message(role, content) == [role |-> role, content |-> content]

\* addChatMessage with role assistant (lines 165-168).
Say(content) == chatMessages \o <<Message("assistant", content)>>

\* A plan with one task of two subtasks.
DocTwo == Plan("T2", <<Task("d", <<"s", "t">>)>>)

\* The plans Home and the adjust-task endpoint may hand to the component.
DashPlans == {DocX, DocT, DocTwo}

\* currentPlan.tasks || [] (lines 322, 367).
TasksOf(plan) ==
  The({(IF m.t = "arr" THEN [i \in 1..Len(m.kv) |-> m.kv[i].v] ELSE <<>>)
       : m \in {Member(plan, "tasks")}})

\* task.subtasks?.length || 0 (line 322).
SubtaskCount(task) ==
  The({(IF m.t = "arr" THEN Len(m.kv) ELSE 0) : m \in {Member(task, "subtasks")}})

\* The reduce of line 322.
RECURSIVE SumSubtasks(_)
SumSubtasks(tasks) ==
  IF Len(tasks) = 0 THEN 0 ELSE SubtaskCount(tasks[1]) + SumSubtasks(Tail(tasks))

totalSubtasks == SumSubtasks(TasksOf(currentPlan))
completedCount == Cardinality(completedSubtasks)

\* Line 324, in whole percent.
progressPercentage ==
  IF totalSubtasks > 0 THEN (completedCount * 100) \div totalSubtasks ELSE 0

\* String(n) for a natural number.
DigitOf == <<"0", "1", "2", "3", "4", "5", "6", "7", "8", "9">>
RECURSIVE NumberToString(_)
NumberToString(n) ==
  IF n < 10 THEN DigitOf[n + 1]
  ELSE NumberToString(n \div 10) \o DigitOf[(n % 10) + 1]

\* The id of line 153.
SubtaskId(taskIndex, subtaskIndex) ==
  NumberToString(taskIndex) \o "-" \o NumberToString(subtaskIndex)

\* The indices of the checkboxes LearningPlan draws for a plan.
Checkboxes(plan) ==
  UNION {{<<t - 1, i - 1>> : i \in 1..SubtaskCount(TasksOf(plan)[t])}
         : t \in 1..Len(TasksOf(plan))}

\* The main view is rendered (lines 297-320 return before it otherwise):
\* only then LearningPlan and CoachPanel hold the callbacks.
Rendered == ~isLoading /\ error.isNull /\ currentPlan # JNull

\* The state of Home, which the handlers of LearningDashboard leave alone.
homeVars == <<currentView, learningTopic, learningPlan, isLoading, error, att>>

\* The first call of triggerPlanAdjustment that has not been made.
NextAdjust(c) == adj[c].pc = "idle" /\ \A b \in AdjustIds : b < c => adj[b].pc # "idle"

\* What the user may say, and what triggerPlanAdjustment may be given.
Questions == {"q"}
InsightLists == {<<>>, <<"i">>}

\* What the adjust-task endpoint may answer: the parsed body.
AdjustAnswers ==
  {[success |-> TRUE, plan |-> plan, detail |-> ""] : plan \in DashPlans} \cup
  {[success |-> FALSE, plan |-> DocX, detail |-> ""],
   [success |-> TRUE, plan |-> JNull, detail |-> ""],
   [success |-> FALSE, plan |-> JNull, detail |-> "no insight"]}

\* The message of the catch of line 232.
CaughtMessage(thrown) == IF thrown.isError THEN thrown.message ELSE AdjustFailedMessage

\* Home's call ends with a plan (page.tsx, lines 72 and 85): the plan prop
\* changes and the effect of lines 138-140 copies it.
PlanLoaded(plan) ==
  /\ currentView = "dashboard" /\ isLoading
  /\ learningPlan' = plan
  /\ isLoading' = FALSE
  /\ currentPlan' = plan
  /\ UNCHANGED <<currentView, learningTopic, error, att>>
  /\ UNCHANGED <<completedSubtasks, chatMessages, adj, ask>>

\* Home's call ends with an error (page.tsx, lines 78, 82 and 85).
LoadFailed(message) ==
  /\ currentView = "dashboard" /\ isLoading
  /\ error' = ErrorOf(message)
  /\ isLoading' = FALSE
  /\ UNCHANGED <<currentView, learningTopic, learningPlan, att>>
  /\ UNCHANGED dashboardVars

\* toggleSubtask (lines 152-163), called from a checkbox of LearningPlan.
ToggleSubtask(taskIndex, subtaskIndex) ==
  /\ Rendered
  /\ <<taskIndex, subtaskIndex>> \in Checkboxes(currentPlan)
  /\ \E subtaskId \in {SubtaskId(taskIndex, subtaskIndex)} :
       completedSubtasks' = IF subtaskId \in completedSubtasks
                            THEN completedSubtasks \ {subtaskId}
                            ELSE completedSubtasks \cup {subtaskId}
  /\ UNCHANGED homeVars
  /\ UNCHANGED <<currentPlan, chatMessages, adj, ask>>

\* handleAskCoach up to its await (lines 252-260).
AskCoach(question) ==
  /\ Rendered
  /\ ask = "idle"
  /\ chatMessages' = chatMessages \o <<Message("user", question)>>
  /\ ask' = "fetch"
  /\ UNCHANGED homeVars
  /\ UNCHANGED <<currentPlan, completedSubtasks, adj>>

\* The rest of handleAskCoach (lines 261-273): an answer, a body without
\* one, or a failure.
CoachSettles(outcome) ==
  /\ ask = "fetch"
  /\ chatMessages' = IF outcome = "answer" THEN Say("a")
                     ELSE IF outcome = "failure" THEN Say(CoachUnavailableMessage)
                     ELSE chatMessages
  /\ ask' = "done"
  /\ UNCHANGED homeVars
  /\ UNCHANGED <<currentPlan, completedSubtasks, adj>>

\* triggerPlanAdjustment up to its await (lines 204-221), as call c made
\* by `via`.
Trigger(c, via, insights) ==
  /\ \E said \in {IF currentPlan = JNull THEN NoPlanMessage
                  ELSE IF Len(insights) = 0 THEN NoInsightsMessage
                  ELSE AdjustingNotice} :
       /\ chatMessages' = Say(said)
       /\ adj' = [adj EXCEPT ![c] =
                    IF said = AdjustingNotice
                    THEN [@ EXCEPT !.pc = "fetch", !.via = via, !.requests = @ + 1,
                                   !.appended = @ \o <<said>>]
                    ELSE [@ EXCEPT !.pc = "done", !.via = via,
                                   !.branch = IF currentPlan = JNull THEN "noPlan"
                                              ELSE "noInsights",
                                   !.appended = @ \o <<said>>]]
  /\ UNCHANGED homeVars
  /\ UNCHANGED <<currentPlan, completedSubtasks, ask>>

\* triggerPlanAdjustment called as a function, with any list of insights.
\* The handlers below reach it only with a plan and with insights; this
\* action reaches its two guards (lines 205-212).
TriggerPlanAdjustment(c, insights) ==
  /\ NextAdjust(c)
  /\ Trigger(c, "call", insights)

\* The contents of the user's messages (line 237).
RECURSIVE UserInsights(_)
UserInsights(messages) ==
  IF Len(messages) = 0 THEN <<>>
  ELSE (IF messages[1].role = "user" THEN <<messages[1].content>> ELSE <<>>)
       \o UserInsights(Tail(messages))

\* handleAdjustPlanFromButton (lines 236-243), from the button of CoachPanel.
AdjustPlanFromButton(c) ==
  /\ Rendered
  /\ NextAdjust(c)
  /\ IF Len(UserInsights(chatMessages)) = 0
     THEN /\ chatMessages' = Say(ShareInsightsFirstMessage)
          /\ adj' = [adj EXCEPT ![c] =
                       [@ EXCEPT !.pc = "done", !.via = "button", !.branch = "noUserInsights",
                                 !.appended = @ \o <<ShareInsightsFirstMessage>>]]
          /\ UNCHANGED homeVars
          /\ UNCHANGED <<currentPlan, completedSubtasks, ask>>
     ELSE Trigger(c, "button", UserInsights(chatMessages))

\* The insight of lines 246-248.
FeedbackInsight(messageContent, isPositive) ==
  (IF isPositive THEN "more like this: " ELSE "this is hard, change it: ") \o messageContent

\* handleFeedbackAndAdjust (lines 245-250), from the thumbs of a message.
FeedbackAndAdjust(c, messageContent, isPositive) ==
  /\ Rendered
  /\ NextAdjust(c)
  /\ Trigger(c, "feedback", <<FeedbackInsight(messageContent, isPositive)>>)

\* The end of a call in the catch of lines 231-233.
Caught(c, rec, branch, said) ==
  /\ chatMessages' = Say(said)
  /\ adj' = [adj EXCEPT ![c] =
               [rec EXCEPT !.pc = "done", !.branch = branch, !.appended = @ \o <<said>>]]
  /\ UNCHANGED homeVars
  /\ UNCHANGED <<currentPlan, completedSubtasks, ask>>

\* fetch rejects (line 217).
AdjustFetchFail(c, thrown) ==
  /\ adj[c].pc = "fetch"
  /\ Caught(c, adj[c], "fetchError", CaughtMessage(thrown))

\* fetch resolves (lines 217-224): the status is checked, then the body is
\* awaited.
AdjustResponded(c, ok) ==
  /\ adj[c].pc = "fetch"
  /\ IF ~ok
     THEN Caught(c, [adj[c] EXCEPT !.ok = ok], "notOk", ServiceUnavailableMessage)
     ELSE /\ adj' = [adj EXCEPT ![c] = [@ EXCEPT !.pc = "json", !.ok = ok]]
          /\ UNCHANGED homeVars
          /\ UNCHANGED <<currentPlan, completedSubtasks, chatMessages, ask>>

\* response.json() rejects (line 224).
AdjustJsonFail(c, thrown) ==
  /\ adj[c].pc = "json"
  /\ Caught(c, adj[c], "jsonError", CaughtMessage(thrown))

\* A faulty variant of AdjustJson: a plan in the body is taken whatever the
\* success flag says.
AdjustJsonAnyPlan(c, data) ==
  /\ adj[c].pc = "json"
  /\ \E rec \in {[adj[c] EXCEPT !.success = data.success, !.hasPlan = (data.plan # JNull)]} :
       IF data.plan # JNull
       THEN /\ currentPlan' = data.plan
            /\ chatMessages' = Say(PlanUpdatedMessage)
            /\ adj' = [adj EXCEPT ![c] =
                         [rec EXCEPT !.pc = "done", !.branch = "success", !.sets = @ + 1,
                                     !.appended = @ \o <<PlanUpdatedMessage>>]]
            /\ UNCHANGED homeVars
            /\ UNCHANGED <<completedSubtasks, ask>>
       ELSE Caught(c, rec, "refused",
                   IF data.detail # "" THEN data.detail ELSE NoAdjustedPlanMessage)

\* response.json() resolves (lines 224-230).
AdjustJson(c, data) ==
  /\ adj[c].pc = "json"
  /\ \E rec \in {[adj[c] EXCEPT !.success = data.success, !.hasPlan = (data.plan # JNull)]} :
       IF data.success /\ data.plan # JNull
       THEN /\ currentPlan' = data.plan
            /\ chatMessages' = Say(PlanUpdatedMessage)
            /\ adj' = [adj EXCEPT ![c] =
                         [rec EXCEPT !.pc = "done", !.branch = "success", !.sets = @ + 1,
                                     !.appended = @ \o <<PlanUpdatedMessage>>]]
            /\ UNCHANGED homeVars
            /\ UNCHANGED <<completedSubtasks, ask>>
       ELSE Caught(c, rec, "refused",
                   IF data.detail # "" THEN data.detail ELSE NoAdjustedPlanMessage)

\* Home has just rendered LearningDashboard (page.tsx, lines 26-30 and
\* 137-143): the state of lines 136-150.
InitDashboard ==
  /\ currentView = "dashboard"
  /\ learningTopic \in Topics
  /\ learningPlan = JNull
  /\ isLoading = TRUE
  /\ error = NoError
  /\ att = [a \in AttemptIds |-> IdleAttempt]
  /\ currentPlan = learningPlan
  /\ completedSubtasks = {}
  /\ chatMessages = <<Message("assistant", WelcomeMessage)>>
  /\ adj = [c \in AdjustIds |-> IdleAdjust]
  /\ ask = "idle"

NextDashboard ==
  \/ \E plan \in DashPlans : PlanLoaded(plan)
  \/ \E message \in {ParseErrorMessage} : LoadFailed(message)
  \/ \E taskIndex \in 0..1, subtaskIndex \in 0..1 : ToggleSubtask(taskIndex, subtaskIndex)
  \/ \E question \in Questions : AskCoach(question)
  \/ \E outcome \in {"answer", "none", "failure"} : CoachSettles(outcome)
  \/ \E c \in AdjustIds : AdjustPlanFromButton(c)
  \/ \E c \in AdjustIds, isPositive \in BOOLEAN : FeedbackAndAdjust(c, WelcomeMessage, isPositive)
  \/ \E c \in AdjustIds, insights \in InsightLists : TriggerPlanAdjustment(c, insights)
  \/ \E c \in AdjustIds, thrown \in Failures : AdjustFetchFail(c, thrown)
  \/ \E c \in AdjustIds, ok \in BOOLEAN : AdjustResponded(c, ok)
  \/ \E c \in AdjustIds, thrown \in Failures : AdjustJsonFail(c, thrown)
  \/ \E c \in AdjustIds, data \in AdjustAnswers : AdjustJson(c, data)

SpecDashboard == InitDashboard /\ [][NextDashboard]_vars

(***************************************************************************)
(* The claims.                                                             *)
(***************************************************************************)

\* A call that left the read loop by the sentinel or by the end of the
\* stream.
Terminated(a) == att[a].end \in {"done", "eos"}

NotNull(v) == v # JNull

\* The plans a call handed to setLearningPlan, null left out.
PlansOf(a) == SelectSeq(att[a].plans, NotNull)

\* The documents whose encodings are among the responses, each with the text
\* of its encoding.
Encodings ==
  {[doc |-> DocX, wire |-> Wire(Encode(TextX, Len(TextX) \div 2))],
   [doc |-> DocT, wire |-> Wire(Encode(Stringify(DocT), 0))]}

\* C1 Chunk-boundary invariance: a call that was given the whole encoding
\* of a document (fragment frames, then the sentinel frame), cut into chunks
\* at any offsets, ends with that document as its plan and with no error.
ChunkBoundaryInvariance ==
  \A a \in AttemptIds, e \in Encodings :
    (/\ att[a].wire = e.wire
     /\ Terminated(a)
     /\ att[a].end = "done" \/ att[a].off = Len(e.wire))
    => att[a].plans = <<e.doc>> /\ att[a].errors = <<>>

\* C2 Sentinel precedence: once a chunk held a sentinel frame the call has
\* left the read loop, so that no later frame reaches the buffer; and the
\* buffer at termination is the concatenation of the fragments of the frames
\* that came before the first sentinel frame.
SentinelPrecedence ==
  \A a \in AttemptIds :
    /\ att[a].sawDone => att[a].pc = "done" /\ att[a].end = "done"
    /\ Terminated(a) => att[a].accumulatedJson = att[a].expectBuf

\* A call that met the sentinel with a fragment frame behind it in the same
\* chunk, and kept the fragment out of the buffer.
SentinelPrecedenceWitness ==
  \E a \in AttemptIds :
    /\ att[a].wire = Wire(<<FrameOf(Frag1), DoneFrame, FrameOf(Frag2)>>)
    /\ att[a].off = Len(att[a].wire)
    /\ att[a].end = "done"
    /\ att[a].accumulatedJson = Frag1

\* C3 Malformed-frame resilience: the buffer, the way the loop ends and the
\* outcome of a call are those of the same chunks without their malformed
\* frames (frames that do not start with data:, or that start with data: and
\* carry invalid JSON).
MalformedFrameResilience ==
  \A a \in AttemptIds :
    /\ att[a].accumulatedJson = att[a].refAcc
    /\ att[a].refDone <=> att[a].end = "done"
    /\ Terminated(a) =>
         /\ att[a].plans = FinalOutcome(att[a].refAcc).plan
         /\ att[a].errors = FinalOutcome(att[a].refAcc).error

\* A call that read a frame without data: and a frame with invalid JSON
\* between the two fragments of a document, and delivered the document.
MalformedFrameResilienceWitness ==
  \E a \in AttemptIds :
    /\ att[a].wire = Wire(<<FrameOf(Frag1), NotDataFrame, BadJsonFrame, FrameOf(Frag2)>>)
    /\ att[a].off = Len(att[a].wire)
    /\ att[a].end = "eos"
    /\ att[a].plans = <<DocX>>

\* C4 Exactly one outcome per attempt: a call that reached its end has
\* delivered either one plan or one error, never neither and never both.
ExactlyOneOutcome ==
  \A a \in AttemptIds :
    att[a].pc = "done" => Len(PlansOf(a)) + Len(att[a].errors) = 1

SuccessIsSchemaValid ==
  \A a \in AttemptIds :
    \A i \in 1..Len(att[a].plans) : IsLearningPlan(att[a].plans[i])

\* C7 Empty-stream failure: a call whose stream terminated, by the sentinel
\* or by its end, with an empty buffer sets the parse-failure error and no
\* plan.
EmptyStreamFailure ==
  \A a \in AttemptIds :
    Terminated(a) /\ att[a].accumulatedJson = "" =>
      att[a].plans = <<>> /\ att[a].errors = <<ParseErrorMessage>>

\* A call whose stream closed without a single frame.
EmptyStreamFailureWitness ==
  \E a \in AttemptIds :
    /\ att[a].end = "eos"
    /\ att[a].wire = ""
    /\ att[a].hasRead
    /\ error = ErrorOf(ParseErrorMessage)

\* C8 Rejected response: a call whose response was not ok or had no body
\* ends with the request-failed error without having obtained a reader,
\* called read or parsed anything, and learningPlan stays null.
RejectedResponse ==
  \A a \in AttemptIds :
    att[a].end = "rejected" =>
      /\ att[a].pc = "done"
      /\ ~att[a].reader /\ ~att[a].hasRead /\ ~att[a].parsed
      /\ att[a].plans = <<>>
      /\ \E r \in Rejections : att[a].errors = <<RequestFailedMessage(r.status)>>
      /\ (\A b \in AttemptIds \ {a} : att[b].pc = "idle") => learningPlan = JNull

\* A call that was answered with status 500.
RejectedResponseWitness ==
  \E a \in AttemptIds :
    /\ att[a].end = "rejected"
    /\ error = ErrorOf(RequestFailedMessage("500"))
    /\ ~isLoading

\* C9 Read failure while streaming: a call whose chunk read failed ends with
\* the error of the transport; its buffer is not parsed and no plan is set.
ReadFailure ==
  \A a \in AttemptIds :
    att[a].end = "readError" =>
      /\ att[a].pc = "done"
      /\ ~att[a].parsed
      /\ att[a].plans = <<>>
      /\ \E f \in Failures : att[a].errors = TransportOutcome(f).error

\* A call whose read failed when its buffer held the whole document.
ReadFailureWitness ==
  \E a \in AttemptIds :
    /\ att[a].end = "readError"
    /\ att[a].accumulatedJson = TextX
    /\ att[a].plans = <<>>
    /\ error = ErrorOf("network error")

\* C10 Implicit termination: a call whose stream ended without a sentinel
\* frame has the outcome that it would have after one more chunk holding the
\* sentinel frame: the plan when the buffer parses, the parse-failure error
\* otherwise, never an error of the transport.
ImplicitTermination ==
  \A a \in AttemptIds :
    att[a].end = "eos" =>
      /\ ~att[a].sawDone
      /\ ProcessChunk(Wire(<<DoneFrame>>), att[a].accumulatedJson).done
      /\ att[a].plans =
           FinalOutcome(ProcessChunk(Wire(<<DoneFrame>>), att[a].accumulatedJson).acc).plan
      /\ att[a].errors =
           FinalOutcome(ProcessChunk(Wire(<<DoneFrame>>), att[a].accumulatedJson).acc).error
      /\ att[a].errors \in {<<>>, <<ParseErrorMessage>>}

\* A call that read both fragments of a document, met the end of the stream
\* and delivered the document.
ImplicitTerminationWitness ==
  \E a \in AttemptIds :
    /\ att[a].wire = Wire(<<FrameOf(Frag1), FrameOf(Frag2)>>)
    /\ att[a].off = Len(att[a].wire)
    /\ att[a].end = "eos"
    /\ learningPlan = DocX

\* The frames of a text that are complete: the pieces before its last
\* delimiter (what follows the last delimiter is the pending tail).
CompleteFrames(text) ==
  The({SubSeq(lines, 1, Len(lines) - 1) : lines \in {Split(text, Delimiter)}})

\* C11 Pending tail is carried forward: while a call is reading, its buffer
\* holds the fragment of every complete frame of the text received so far,
\* once each, however the text was cut into chunks; the text after the last
\* delimiter waits for the next chunk.
PendingTailCarried ==
  \A a \in AttemptIds :
    att[a].pc = "read" =>
      att[a].accumulatedJson
        = ConcatText(BeforeDone(CompleteFrames(SubSeq(att[a].wire, 1, att[a].off))))

\* C12 Buffer is append-only and ordered: the buffer of a call is always the
\* concatenation, in the order of arrival, of the fragments of the frames
\* processed so far, and every step leaves it as it was or extends it at its
\* end.
BufferAppendOnly ==
  /\ [](\A a \in AttemptIds : att[a].accumulatedJson = att[a].expectBuf)
  /\ [][\A a \in AttemptIds :
          StartsWith(att'[a].accumulatedJson, att[a].accumulatedJson)]_vars

\* A call still reading whose buffer was extended by the first and then by
\* the second fragment of a document.
BufferAppendOnlyWitness ==
  \E a \in AttemptIds :
    /\ att[a].pc = "read"
    /\ att[a].wire = Wire(<<FrameOf(Frag1), FrameOf(Frag2)>>)
    /\ att[a].off = Len(att[a].wire)
    /\ att[a].accumulatedJson = Frag1 \o Frag2

\* A data: frame whose payload is a JSON object without a content member.
NoContent(line) ==
  /\ StartsWith(line, DataPrefix)
  /\ \E p \in {JsonParse(Trim(Substring(line, 5)))} :
       p.ok /\ p.v.t = "obj" /\ Member(p.v, "content") = Undefined

\* C13 Absent content is the empty fragment: a call whose stream holds only
\* frames without a content member (and sentinel frames) has an empty
\* buffer.
AbsentContentIsEmpty ==
  \A a \in AttemptIds :
    (\A line \in {CompleteFrames(att[a].wire)[i] : i \in 1..Len(CompleteFrames(att[a].wire))} :
       NoContent(line) \/ IsDoneFrame(line))
    => att[a].accumulatedJson = ""

\* A call that has met the sentinel, the end of the stream or a failed read.
Observed(a) == att[a].sawDone \/ att[a].end \in {"eos", "readError"}

\* C14 Terminal states stop reading: once a call has met the sentinel, the
\* end of the stream or a failed read, it has no read pending and takes
\* nothing more from the transport.
TerminalStopsReading ==
  [][\A a \in AttemptIds :
       Observed(a) => /\ att[a].pc = "done"
                      /\ att'[a].pc = "done"
                      /\ att'[a].off = att[a].off]_vars

\* A call that met the sentinel while the transport had more text to
\* deliver.
TerminalStopsReadingWitness ==
  \E a \in AttemptIds :
    /\ att[a].sawDone
    /\ att[a].pc = "done"
    /\ att[a].off < Len(att[a].wire)

\* C15 No early outcome: a call that is awaiting fetch or a read has set no
\* plan and no error and has not ended loading; unless handleBackToWelcome
\* ran in between, learningPlan and error are null and isLoading is true.
NoEarlyOutcome ==
  \A a \in AttemptIds :
    att[a].pc \in {"fetch", "read"} =>
      /\ att[a].plans = <<>> /\ att[a].errors = <<>> /\ att[a].loadingOff = 0
      /\ att[a].abandonedAt = "" /\ (\A b \in AttemptIds \ {a} : att[b].pc = "idle")
         => learningPlan = JNull /\ error = NoError /\ isLoading

\* A call still reading whose buffer already holds a whole document, with
\* no plan shown.
NoEarlyOutcomeWitness ==
  \E a \in AttemptIds :
    /\ att[a].pc = "read"
    /\ att[a].abandonedAt = ""
    /\ JsonParse(att[a].accumulatedJson).ok
    /\ learningPlan = JNull /\ isLoading

\* The calls that have started, and the one started last.
Started == {a \in DOMAIN att : att[a].pc # "idle"}
Latest == Max(Started)

Delivered(a) == SubSeq(att[a].wire, 1, att[a].off)

\* C17: frame-aligned streams assemble correctly.  When every chunk of a
\* call was made of whole frames, each followed by the delimiter, and the
\* call left the read loop at the sentinel or at the end of the stream, and
\* the fragments before the first sentinel concatenate to the serialization
\* of a learning plan, then the call set exactly that plan and no error.
FrameAlignedAssembly ==
  \A a \in AttemptIds :
    (att[a].pc = "done" /\ att[a].end \in {"done", "eos"} /\ att[a].aligned) =>
      \A doc \in Docs :
        ConcatText(BeforeDone(CompleteFrames(Delivered(a)))) = Stringify(doc)
          => att[a].plans = <<doc>> /\ att[a].errors = <<>> /\ att[a].loadingOff = 1

\* The two-chunk example: the document X in two fragments, one frame per
\* chunk, the second chunk ending with the sentinel frame.
FrameAlignedAssemblyWitness ==
  \E a \in AttemptIds :
    /\ att[a].wire = Wire(Encode(TextX, Len(TextX) \div 2))
    /\ att[a].aligned /\ att[a].chunks = 2
    /\ att[a].end = "done" /\ att[a].pc = "done"
    /\ att[a].accumulatedJson = Frag1 \o Frag2
    /\ att[a].plans = <<DocX>>
    /\ learningPlan = DocX /\ error = NoError /\ ~isLoading
\* C18: every attempt finishes loading.  Under a fair transport, a call that
\* is suspended on fetch or on reader.read() comes to its end, having called
\* setIsLoading(false) once, and the loading flag is off then.
EveryAttemptFinishesLoading ==
  \A a \in AttemptIds :
    (att[a].pc \in {"fetch", "read"})
      ~> (att[a].pc = "done" /\ att[a].loadingOff = 1 /\ ~isLoading)

\* A call that read a chunk, lost the connection and finished loading with
\* the error of the transport.
EveryAttemptFinishesLoadingWitness ==
  \E a \in AttemptIds :
    /\ att[a].pc = "done" /\ att[a].end = "readError" /\ att[a].off > 0
    /\ att[a].loadingOff = 1 /\ ~isLoading
    /\ att[a].errors = <<"network error">> /\ att[a].plans = <<>>
\* A call of triggerPlanAdjustment that has ended, and one that ended
\* without a new plan.
Ended(c) == adj[c].pc = "done"
Unadjusted(c) == Ended(c) /\ adj[c].branch # "success"

\* A message that explains why the plan was not adjusted: any message of
\* a call but the notice of line 214.
Explains(content) == content # AdjustingNotice

\* C19: plan adjustment changes the plan only on success.  A call sets the
\* plan exactly when the response was ok and its body had success and a
\* plan; without a current plan or without insights it sends no request;
\* and a call that ends without a new plan has added exactly one message
\* that explains it, as the assistant, in the step in which it ended, and
\* that step left currentPlan and completedSubtasks as they were.
PlanChangesOnlyOnSuccess ==
  /\ [](\A c \in AdjustIds :
          /\ adj[c].sets = (IF Ended(c) /\ adj[c].ok /\ adj[c].success /\ adj[c].hasPlan
                            THEN 1 ELSE 0)
          /\ adj[c].branch \in {"noPlan", "noInsights", "noUserInsights"}
               => adj[c].requests = 0
          /\ Unadjusted(c) => Len(SelectSeq(adj[c].appended, Explains)) = 1)
  /\ [][\A c \in AdjustIds :
          (~Unadjusted(c) /\ Unadjusted(c)')
            => /\ currentPlan' = currentPlan
               /\ completedSubtasks' = completedSubtasks
               /\ Len(chatMessages') = Len(chatMessages) + 1
               /\ chatMessages'[Len(chatMessages')].role = "assistant"
               /\ Explains(chatMessages'[Len(chatMessages')].content)]_vars

\* The adjust button after a question: the endpoint refuses, the plan and
\* the ticked subtask stay, and the chat ends with the endpoint's reason.
PlanChangesOnlyOnSuccessWitness ==
  \E c \in AdjustIds :
    /\ adj[c].via = "button" /\ adj[c].branch = "refused"
    /\ adj[c].requests = 1 /\ adj[c].sets = 0
    /\ adj[c].appended = <<AdjustingNotice, "no insight">>
    /\ currentPlan = DocT /\ completedSubtasks = {"0-0"}
    /\ chatMessages[Len(chatMessages)] = Message("assistant", "no insight")

\* The ids of the subtasks of a plan.
SubtaskIdsOf(plan) == {SubtaskId(box[1], box[2]) : box \in Checkboxes(plan)}

\* C20: progress stays within bounds.  After any toggles and plan
\* replacements made through the component's buttons, every id in
\* completedSubtasks is the id of a subtask of the current plan, the count
\* of completed ids is at most the total, and the progress is at most 100.
ProgressWithinBounds ==
  (\A c \in AdjustIds : adj[c].via # "call") =>
    /\ completedSubtasks \subseteq SubtaskIdsOf(currentPlan)
    /\ completedCount <= totalSubtasks
    /\ progressPercentage <= 100
====
